---- MODULE Spec2Model ----
(***************************************************************************)
(* A model of src/utils/helpers.py: the geometry helpers, the tiled        *)
(* stage-1 executor, the stage-2 runner and the pipeline orchestrator of   *)
(* the two-stage restoration pipeline.                                     *)
(*                                                                         *)
(* Tensors are modelled by their shapes (and, where a property is about    *)
(* values, by their entries).  Python's float arithmetic is IEEE-754       *)
(* binary64 and is modelled bit by bit (FDiv, FMulInt, FTrunc).            *)
(***************************************************************************)
EXTENDS Integers, Sequences, FiniteSets, TLC

VARIABLES
    geo,    \* the call of a geometry helper under way, with its result
    tp,     \* the tile_process call under way: position, locals, outcome
    control_scales,  \* cldm.control_scales, the conditioning model's field
    s2,     \* the run_stage2 call under way: position, locals, outcome
    pipe,   \* the pipeline object: its class, upscale and final_size
    rn      \* the run / run_stage1 call under way on pipe

vars == <<geo, tp, control_scales, s2, pipe, rn>>

\* Python's None.
None == <<>>

Min(a, b) == IF a <= b THEN a ELSE b

Max(a, b) == IF a >= b THEN a ELSE b

(***************************************************************************)
(* IEEE-754 binary64, for positive normal values.  A double is a record    *)
(* [sig, exp]: sig is the significand, MantissaBits bits, most significant *)
(* first (sig[1] = 1), and the value is (sig read as an integer) * 2^exp.  *)
(***************************************************************************)
MantissaBits == 53

\* The integer a sequence of bits (most significant first) stands for.
RECURSIVE BitsValue(_, _)
BitsValue(bits, acc) ==
    IF bits = <<>> THEN acc ELSE BitsValue(Tail(bits), 2 * acc + Head(bits))

\* Long arithmetic goes by limbs of 8 bits, most significant first.
Limb == 2 ^ 8

LimbsToBits(limbs) ==
    [i \in 1..(8 * Len(limbs)) |->
        (limbs[(i - 1) \div 8 + 1] \div (2 ^ (7 - ((i - 1) % 8)))) % 2]

\* bits, padded with zeros in front to whole limbs.
BitsToLimbs(bits) ==
    LET k   == (Len(bits) + 7) \div 8
        pad == 8 * k - Len(bits)
        padded == [i \in 1..(8 * k) |-> IF i <= pad THEN 0 ELSE bits[i - pad]]
    IN  [j \in 1..k |-> BitsValue(SubSeq(padded, 8 * j - 7, 8 * j), 0)]

\* bits without its leading zeros (bits holds a 1).
StripZeros(bits) ==
    LET first == CHOOSE i \in 1..Len(bits) :
                     bits[i] = 1 /\ \A j \in 1..(i - 1) : bits[j] = 0
    IN  SubSeq(bits, first, Len(bits))

\* bits + 1 (bits is MantissaBits long); all ones carry into a longer word.
Increment(bits) ==
    LET zeros == {i \in 1..Len(bits) : bits[i] = 0}
    IN  IF zeros = {} THEN <<1>> \o [i \in 1..Len(bits) |-> 0]
        ELSE LET k == CHOOSE i \in zeros : \A j \in zeros : j <= i
             IN  [i \in 1..Len(bits) |->
                     IF i < k THEN bits[i] ELSE IF i = k THEN 1 ELSE 0]

\* Round-to-nearest-even, to MantissaBits bits, of the exact value
\* (bits read as an integer, bits[1] = 1) * 2^exp plus, when sticky, a
\* non-zero amount below the last bit.
RoundNearestEven(bits, exp, sticky) ==
    LET n    == Len(bits)
        drop == n - MantissaBits
    IN  IF drop <= 0
        THEN \* fewer bits than the format holds: exact, padded with zeros
             [sig |-> bits \o [i \in 1..(0 - drop) |-> 0], exp |-> exp + drop]
        ELSE LET kept  == SubSeq(bits, 1, MantissaBits)
                 guard == bits[MantissaBits + 1]
                 rest  == sticky \/ \E i \in (MantissaBits + 2)..n : bits[i] = 1
                 up    == guard = 1 /\ (rest \/ kept[MantissaBits] = 1)
                 inc   == Increment(kept)
             IN  IF ~up THEN [sig |-> kept, exp |-> exp + drop]
                 ELSE IF Len(inc) > MantissaBits
                 THEN [sig |-> SubSeq(inc, 1, MantissaBits), exp |-> exp + drop + 1]
                 ELSE [sig |-> inc, exp |-> exp + drop]

\* Scale a / b by powers of two until B <= A < 2B; t is the binary exponent
\* of the quotient: a / b = (A / B) * 2^t.
RECURSIVE Normalize(_, _, _)
Normalize(A, B, t) ==
    IF A < B THEN Normalize(2 * A, B, t - 1)
    ELSE IF A >= 2 * B THEN Normalize(A, 2 * B, t + 1)
    ELSE [A |-> A, B |-> B, t |-> t]

\* n more quotient limbs of r / B (r < B), and the remainder left.
RECURSIVE LongDiv(_, _, _)
LongDiv(r, B, n) ==
    IF n = 0 THEN [limbs |-> <<>>, rem |-> r]
    ELSE LET rest == LongDiv((r * Limb) % B, B, n - 1)
         IN  [limbs |-> <<(r * Limb) \div B>> \o rest.limbs, rem |-> rest.rem]

\* Python's a / b for positive ints: the correctly rounded quotient.  The
\* quotient is developed to 1 + 56 bits, the remainder is the sticky part.
FDiv(a, b) ==
    LET nz == Normalize(a, b, 0)
        q  == LongDiv(nz.A - nz.B, nz.B, 7)
    IN  RoundNearestEven(<<1>> \o LimbsToBits(q.limbs), nz.t - 56, q.rem # 0)

\* The limbs of n (<<>> for 0).
RECURSIVE IntLimbs(_)
IntLimbs(n) == IF n = 0 THEN <<>> ELSE Append(IntLimbs(n \div Limb), n % Limb)

\* limbs[1..i] times c plus carry.
RECURSIVE MulLimbs(_, _, _, _)
MulLimbs(limbs, i, c, carry) ==
    IF i = 0 THEN IntLimbs(carry)
    ELSE LET v == limbs[i] * c + carry
         IN  Append(MulLimbs(limbs, i - 1, c, v \div Limb), v % Limb)

\* Python's c * f for an int c >= 1 and a float f: the exact product rounded
\* to nearest-even.
FMulInt(c, f) ==
    LET limbs == BitsToLimbs(f.sig)
        exact == StripZeros(LimbsToBits(MulLimbs(limbs, Len(limbs), c, 0)))
    IN  RoundNearestEven(exact, f.exp, FALSE)

\* Python's int(f) for a positive float: truncation toward zero.
FTrunc(f) ==
    IF f.exp >= 0 THEN BitsValue(f.sig \o [i \in 1..f.exp |-> 0], 0)
    ELSE IF MantissaBits + f.exp <= 0 THEN 0
    ELSE BitsValue(SubSeq(f.sig, 1, MantissaBits + f.exp), 0)

(***************************************************************************)
(* Geometry utilities.                                                     *)
(***************************************************************************)

\* A mutant of resize_short_edge_to: the branches of h < w and h > w swapped,
\* so that the longer edge becomes size.
resize_long_edge_to(h, w, size) ==
    IF h = w THEN <<size, size>>
    ELSE IF h > w THEN <<size, FTrunc(FMulInt(w, FDiv(size, h)))>>
    ELSE <<FTrunc(FMulInt(h, FDiv(size, w))), size>>

\* A mutant of resize_short_edge_to: size // h, the integer quotient, in
\* place of size / h.
resize_short_edge_floor_div(h, w, size) ==
    IF h = w THEN <<size, size>>
    ELSE IF h < w THEN <<size, w * (size \div h)>>
    ELSE <<h * (size \div w), size>>

\* resize_short_edge_to: the (new_h, new_w) handed to F.interpolate, which
\* returns a tensor of exactly that height and width.
resize_short_edge_to(h, w, size) ==
    IF h = w THEN <<size, size>>
    ELSE IF h < w THEN <<size, FTrunc(FMulInt(w, FDiv(size, h)))>>
    ELSE <<FTrunc(FMulInt(h, FDiv(size, w))), size>>

\* The pad formula of line 42, left commented out in the source: it adds a
\* whole multiple to an edge that is already aligned.
get_pad_always_next(x, multiple) == (x \div multiple + 1) * multiple - x

get_pad(x, multiple) ==
    (x \div multiple + (IF x % multiple # 0 THEN 1 ELSE 0)) * multiple - x

\* The height and width pad_to_multiples_of returns for an h x w input.
padded_shape(h, w, multiple) ==
    IF h % multiple = 0 /\ w % multiple = 0 THEN <<h, w>>
    ELSE <<h + get_pad(h, multiple), w + get_pad(w, multiple)>>

\* An image plane: height, width and the entries px[<<row, col>>].  Batch and
\* channel axes are untouched by padding.
Plane(h, w, px) == [h |-> h, w |-> w, px |-> px]

\* F.pad(imgs, pad=(0, pw, 0, ph), mode="constant", value=0): pw columns on
\* the right, ph rows at the bottom.
F_pad(img, pw, ph) ==
    Plane(img.h + ph, img.w + pw,
          [p \in (1..(img.h + ph)) \X (1..(img.w + pw)) |->
              IF p[1] <= img.h /\ p[2] <= img.w THEN img.px[p] ELSE 0])

pad_to_multiples_of(img, multiple) ==
    IF img.h % multiple = 0 /\ img.w % multiple = 0
    THEN img    \* imgs.clone(): same shape, same entries
    ELSE F_pad(img, get_pad(img.w, multiple), get_pad(img.h, multiple))

(***************************************************************************)
(* Calls of the geometry helpers on bounded inputs.                        *)
(***************************************************************************)
MaxPadDim == 5
MaxMultiple == 4
MaxSmallDim == 3

\* Edge lengths for the resize: small ones, and 49 x 98 (an exact 1:2 image).
ResizeDims == (1..MaxSmallDim) \cup {49, 98}
ResizeSizes == (1..MaxSmallDim) \cup {512}

\* A test image whose entries are all non-zero and pairwise distinct.
TestPlane(h, w, k) ==
    Plane(h, w, [p \in (1..h) \X (1..w) |-> k * (p[1] * (MaxPadDim + 2) + p[2])])

GeoIdle == [fn |-> "none"]

CallPad ==
    /\ geo = GeoIdle
    /\ \E h \in 1..MaxPadDim, w \in 1..MaxPadDim, m \in 1..MaxMultiple, k \in 1..2 :
          LET img == TestPlane(h, w, k)
          IN  geo' = [fn |-> "pad_to_multiples_of", img |-> img, multiple |-> m,
                      out |-> pad_to_multiples_of(img, m)]
    /\ UNCHANGED <<tp, control_scales, s2, pipe, rn>>

CallResize ==
    /\ geo = GeoIdle
    /\ \E h \in ResizeDims, w \in ResizeDims, size \in ResizeSizes :
          geo' = [fn |-> "resize_short_edge_to", h |-> h, w |-> w, size |-> size,
                  out |-> resize_short_edge_to(h, w, size)]
    /\ UNCHANGED <<tp, control_scales, s2, pipe, rn>>

(***************************************************************************)
(* tile_process (lines 210-248), a module-level function.                  *)
(***************************************************************************)
stage1_scale == 4

\* Tensor broadcasting of two shapes, aligned at the last axis.
Broadcast(a, b) ==
    LET n  == Max(Len(a), Len(b))
        pa == [i \in 1..n |-> IF i <= n - Len(a) THEN 1 ELSE a[i - (n - Len(a))]]
        pb == [i \in 1..n |-> IF i <= n - Len(b) THEN 1 ELSE b[i - (n - Len(b))]]
    IN  [ok    |-> \A i \in 1..n : pa[i] = pb[i] \/ pa[i] = 1 \/ pb[i] = 1,
         shape |-> [i \in 1..n |-> Max(pa[i], pb[i])]]

\* target += value in place: value must broadcast to the target's own shape.
AddsInPlace(target, value) ==
    Broadcast(target, value).ok /\ Broadcast(target, value).shape = target

\* A mutant of axis_weights: a ramp longer than the tile is cut to the tile's
\* length instead of failing.
axis_weights_cut(tile_size, tile_stride) ==
    LET steps == tile_stride * stage1_scale
        full  == tile_size * stage1_scale
    IN  [ok |-> TRUE,
         w  |-> [i \in 1..full |-> IF i <= steps THEN i - 1 ELSE steps - 1]]

\* y_weights / x_weights (lines 235-238): linspace(0, 1, tile_stride * scale)
\* followed by ones(tile_size * scale - len).  torch.ones of a negative size
\* raises.  Entries are numerators over (steps - 1): i - 1 on the ramp,
\* steps - 1 (that is 1.0) after it.
axis_weights(tile_size, tile_stride) ==
    LET steps == tile_stride * stage1_scale
        extra == tile_size * stage1_scale - steps
    IN  IF extra < 0 THEN [ok |-> FALSE, w |-> <<>>]
        ELSE [ok |-> TRUE,
              w  |-> [i \in 1..(steps + extra) |->
                         IF i <= steps THEN i - 1 ELSE steps - 1]]

\* The pixels <<channel, row, col>> of the output and weight accumulators.
Pixels(c, h, w) == (1..c) \X (1..(h * stage1_scale)) \X (1..(w * stage1_scale))

\* One iteration of the tile loop (lines 223-243) at origin (y, x).
TileBody(st) ==
    LET y      == st.y
        x      == st.x
        th     == Min(y + st.tile_size, st.h) - y       \* lq[:, :, y:y+ts, ...] clips
        tw     == Min(x + st.tile_size, st.w) - x
        \* self.stage1_model(tile): the backbone scales both edges
        scaled == <<1, st.c, th * stage1_scale, tw * stage1_scale>>
        y_start == y * stage1_scale
        x_start == x * stage1_scale
        y_end   == y_start + st.tile_size * stage1_scale
        x_end   == x_start + st.tile_size * stage1_scale
        yw     == axis_weights(st.tile_size, st.tile_stride)
        xw     == axis_weights(st.tile_size, st.tile_stride)
        \* tile_weight * y_weights[:, None, None] * x_weights[None, :, None]
        b1     == Broadcast(scaled, <<Len(yw.w), 1, 1>>)
        b2     == Broadcast(b1.shape, <<1, Len(xw.w), 1>>)
        \* output[:, :, y_start:y_end, x_start:x_end]: slicing clips at the end
        region == <<1, st.c,
                    Min(y_end, st.h * stage1_scale) - y_start,
                    Min(x_end, st.w * stage1_scale) - x_start>>
        prod   == Broadcast(scaled, b2.shape)
        seen   == [scaled |-> scaled, region |-> region,
                   mask_ok |-> yw.ok /\ b1.ok /\ b2.ok,
                   mask |-> IF yw.ok /\ b1.ok /\ b2.ok THEN b2.shape ELSE <<>>]
        \* tile_weight's entry at channel a, row b of the region: y_weights
        \* lies along axis 1 of the 4-d tensor and x_weights along axis 2
        weight(a, b) ==
            yw.w[IF Len(yw.w) = 1 THEN 1 ELSE a] * xw.w[IF Len(xw.w) = 1 THEN 1 ELSE b]
        inRegion(p) ==
            /\ p[2] > y_start /\ p[2] <= y_start + region[3]
            /\ p[3] > x_start /\ p[3] <= x_start + region[4]
    IN  IF ~yw.ok THEN [raised |-> 237, seen |-> seen, weight_map |-> st.weight_map]
        ELSE IF ~(b1.ok /\ b2.ok)
        THEN [raised |-> 239, seen |-> seen, weight_map |-> st.weight_map]
        ELSE IF ~(prod.ok /\ AddsInPlace(region, prod.shape))
        THEN [raised |-> 242, seen |-> seen, weight_map |-> st.weight_map]
        ELSE IF ~AddsInPlace(region, b2.shape)
        THEN [raised |-> 243, seen |-> seen, weight_map |-> st.weight_map]
        ELSE [raised |-> 0, seen |-> seen,
              weight_map |->
                  [p \in DOMAIN st.weight_map |->
                      st.weight_map[p] +
                      (IF inRegion(p) THEN weight(p[1], p[2] - y_start) ELSE 0)]]

MaxTileDim == 3
MaxTile == 2

\* Channel counts: grey, RGB, and the counts equal to a scaled tile edge.
Channels == {1, 3} \cup {stage1_scale * k : k \in 1..MaxTile}

TileIdle == [pc |-> "idle"]

\* Lines 211-217: the call, up to the zeroed accumulators.
TileCall ==
    /\ tp = TileIdle
    /\ \E c \in Channels, h \in 1..MaxTileDim, w \in 1..MaxTileDim,
          tile_size \in 1..MaxTile, tile_stride \in 1..MaxTile :
          tp' = [pc |-> "loop", c |-> c, h |-> h, w |-> w,
                 tile_size |-> tile_size, tile_stride |-> tile_stride,
                 y |-> 0, x |-> 0, tiles |-> 0, seen |-> [mask_ok |-> TRUE],
                 weight_map |-> [p \in Pixels(c, h, w) |-> 0],
                 raised |-> 0, zero_weight |-> {}]
    /\ UNCHANGED <<geo, control_scales, s2, pipe, rn>>

\* Lines 220-243: one tile; an error in it ends the call.
TileStep ==
    /\ tp.pc = "loop"
    /\ LET r  == TileBody(tp)
           nx == tp.x + tp.tile_stride
           ny == IF nx < tp.w THEN tp.y ELSE tp.y + tp.tile_stride
       IN  tp' = [tp EXCEPT
                    !.pc = IF r.raised # 0 THEN "raised"
                           ELSE IF ny < tp.h THEN "loop" ELSE "normalize",
                    !.raised = r.raised,
                    !.seen = r.seen,
                    !.tiles = tp.tiles + 1,
                    !.weight_map = r.weight_map,
                    !.x = IF nx < tp.w THEN nx ELSE 0,
                    !.y = ny]
    /\ UNCHANGED <<geo, control_scales, s2, pipe, rn>>

\* Lines 246-248: output /= weight_map (a float division: a zero weight
\* yields NaN or inf, no exception), then return output.
TileNormalize ==
    /\ tp.pc = "normalize"
    /\ tp' = [tp EXCEPT !.pc = "returned",
                         !.zero_weight = {p \in DOMAIN tp.weight_map : tp.weight_map[p] = 0}]
    /\ UNCHANGED <<geo, control_scales, s2, pipe, rn>>

(***************************************************************************)
(* Pipeline.run_stage2 (lines 67-127).  The collaborators (conditioning    *)
(* model, wavelet decomposition, diffusion, sampler) either return or      *)
(* raise; an exception leaves run_stage2 at once, as nothing catches it.   *)
(***************************************************************************)
NumControlScales == 13
PadMultiple == 64
LatentFactor == 8

\* Strengths, in tenths.
Strengths == {5, 10, 15}

\* Heights and widths of the clean estimate handed to stage 2.
CleanShapes == {<<512, 512>>, <<512, 700>>}

Uniform(v) == [i \in 1..NumControlScales |-> v]

Stage2Idle == [pc |-> "idle", last |-> "none"]

\* Lines 81-84: the call, the padding of the clean estimate.
Stage2Call ==
    /\ s2.pc = "idle"
    /\ \E clean \in CleanShapes, strength \in Strengths,
          tiled \in BOOLEAN, better_start \in BOOLEAN :
          s2' = [pc |-> "condition", last |-> "none", ori |-> clean,
                 padded |-> padded_shape(clean[1], clean[2], PadMultiple),
                 strength |-> strength, tiled |-> tiled,
                 better_start |-> better_start,
                 scales_at_call |-> control_scales,
                 old_control_scales |-> None, x_T |-> None, x |-> None,
                 sample |-> None]
    /\ UNCHANGED <<geo, tp, control_scales, pipe, rn>>

\* Lines 86-95: the conditions are prepared, then the control scales are
\* saved and overridden.
Stage2Override ==
    /\ s2.pc = "condition"
    /\ s2' = [s2 EXCEPT !.pc = "start", !.old_control_scales = control_scales]
    /\ control_scales' = Uniform(s2.strength)
    /\ UNCHANGED <<geo, tp, pipe, rn>>

\* Lines 96-112: the starting latent, (4, h // 8, w // 8).
Stage2Start ==
    /\ s2.pc = "start"
    /\ s2' = [s2 EXCEPT !.pc = "sample",
                        !.x_T = <<4, s2.padded[1] \div LatentFactor,
                                  s2.padded[2] \div LatentFactor>>]
    /\ UNCHANGED <<geo, tp, control_scales, pipe, rn>>

\* Lines 114-123: the sampler runs and the latent is decoded.
Stage2Sample ==
    /\ s2.pc = "sample"
    /\ s2' = [s2 EXCEPT !.pc = "restore",
                        !.x = <<s2.x_T[2] * LatentFactor, s2.x_T[3] * LatentFactor>>]
    /\ UNCHANGED <<geo, tp, control_scales, pipe, rn>>

\* Lines 125-127: the control scales are restored, the padding is cropped.
Stage2Return ==
    /\ s2.pc = "restore"
    /\ control_scales' = s2.old_control_scales
    /\ s2' = [s2 EXCEPT !.pc = "idle", !.last = "returned",
                        !.sample = <<Min(s2.ori[1], s2.x[1]), Min(s2.ori[2], s2.x[2])>>]
    /\ UNCHANGED <<geo, tp, pipe, rn>>

\* A collaborator raises: prepare_condition (lines 87-93), the better-start
\* chain wavelet_decomposition / vae_encode / q_sample (lines 100-109), or
\* the sampler and vae_decode (lines 114-123).  The exception propagates to
\* the caller from where it is; line 125 is not reached.
Stage2Raise ==
    /\ \/ s2.pc = "condition"
       \/ s2.pc = "start" /\ s2.better_start
       \/ s2.pc = "sample"
    /\ s2' = [s2 EXCEPT !.pc = "idle", !.last = "raised"]
    /\ UNCHANGED <<geo, tp, control_scales, pipe, rn>>

(***************************************************************************)
(* The pipeline classes: what each defines, and how a method is found.     *)
(***************************************************************************)
\* The methods in each class body.  BSRNetPipeline's body ends at line 187:
\* tile_process (line 210) starts at column 0, a module-level function, and
\* the run_stage1 of line 252 is a statement of its body after the return.
Defines(cls) ==
    CASE cls = "Pipeline" ->
            {"__init__", "set_final_size", "run_stage1", "run_stage2", "run"}
      [] cls = "BSRNetPipeline" -> {"__init__", "set_final_size"}
      [] cls = "SwinIRPipeline" -> {"__init__", "run_stage1"}
      [] cls = "SCUNetPipeline" -> {"__init__", "run_stage1"}

\* No class on the lookup path defines the name: AttributeError.
NotFound == "AttributeError"

\* Attribute lookup through the class and its base.
Resolve(cls, name) ==
    IF name \in Defines(cls) THEN cls
    ELSE IF name \in Defines("Pipeline") THEN "Pipeline"
    ELSE NotFound

\* The positional parameters, after self, of a run_stage1 definition.
\* Pipeline.run_stage1 is a typing.overload stub: calling it raises.
Params(owner) ==
    CASE owner = "Pipeline" -> [stub |-> TRUE, least |-> 0, most |-> 0]
      [] owner = "SwinIRPipeline" -> [stub |-> FALSE, least |-> 1, most |-> 1]
      [] owner = "SCUNetPipeline" -> [stub |-> FALSE, least |-> 1, most |-> 1]

\* The decorator count_vram_usage hands the call's arguments on unchanged.
count_vram_usage(nargs) == nargs

\* What calling cls's run_stage1 with nargs positional arguments does before
\* any line of a body runs.
Dispatch(cls, nargs) ==
    LET owner == Resolve(cls, "run_stage1")
    IN  IF owner = NotFound THEN "AttributeError"
        ELSE IF Params(owner).stub THEN "NotImplementedError"
        ELSE IF count_vram_usage(nargs) < Params(owner).least
                \/ count_vram_usage(nargs) > Params(owner).most
        THEN "TypeError"
        ELSE "ok"

(***************************************************************************)
(* set_final_size.  lq is (batch, channel, height, width).                 *)
(***************************************************************************)
\* Pipeline.set_final_size (lines 58-60): h, w = lq.shape[1:3].
Pipeline_set_final_size(lq) == <<lq[2], lq[3]>>

\* A mutant of BSRNetPipeline_set_final_size: rounds half up.
set_final_size_rounded(lq, upscale) ==
    <<(2 * lq[3] * upscale[1] + upscale[2]) \div (2 * upscale[2]),
      (2 * lq[4] * upscale[1] + upscale[2]) \div (2 * upscale[2])>>

\* BSRNetPipeline.set_final_size (lines 185-187): h, w = lq.shape[2:], then
\* int(h * self.upscale).  upscale = <<n, d>> stands for the float n / d.
BSRNetPipeline_set_final_size(lq, upscale) ==
    <<FTrunc(FMulInt(lq[3], FDiv(upscale[1], upscale[2]))),
      FTrunc(FMulInt(lq[4], FDiv(upscale[1], upscale[2])))>>

set_final_size(p, lq) ==
    IF Resolve(p.cls, "set_final_size") = "BSRNetPipeline"
    THEN BSRNetPipeline_set_final_size(lq, p.upscale)
    ELSE Pipeline_set_final_size(lq)

(***************************************************************************)
(* The stage-1 runners.  Each returns [error, shape]: the exception raised *)
(* ("" for none) and the clean estimate's <<height, width>>.               *)
(***************************************************************************)
MinEdge == 512

Returned(shape) == [error |-> "", shape |-> shape]

Raised(error) == [error |-> error, shape |-> None]

\* The function of lines 251-264, for self a BSRNetPipeline whose final_size
\* is set.  The backbone scales both edges by stage1_scale.
run_stage1(p, lq, stage1_tile) ==
    IF stage1_tile /\ Resolve(p.cls, "tile_process") = NotFound
    THEN Raised("AttributeError")
    ELSE LET clean == <<lq[3] * stage1_scale, lq[4] * stage1_scale>>
         IN  IF Min(p.final_size[1], p.final_size[2]) < MinEdge
             THEN Returned(resize_short_edge_to(clean[1], clean[2], MinEdge))
             ELSE Returned(p.final_size)

\* SwinIRPipeline.run_stage1 (lines 272-285).  The backbone keeps the size.
SwinIRPipeline_run_stage1(lq) ==
    LET ori    == IF Min(lq[3], lq[4]) < MinEdge
                  THEN resize_short_edge_to(lq[3], lq[4], MinEdge)
                  ELSE <<lq[3], lq[4]>>
        pad_lq == padded_shape(ori[1], ori[2], PadMultiple)
    IN  Returned(<<Min(ori[1], pad_lq[1]), Min(ori[2], pad_lq[2])>>)

\* SCUNetPipeline.run_stage1 (lines 293-298).  The backbone keeps the size.
SCUNetPipeline_run_stage1(lq) ==
    IF Min(lq[3], lq[4]) < MinEdge
    THEN Returned(resize_short_edge_to(lq[3], lq[4], MinEdge))
    ELSE Returned(<<lq[3], lq[4]>>)

\* cls's run_stage1 called with args, a sequence of positional arguments.
call_run_stage1(p, args) ==
    LET how == Dispatch(p.cls, Len(args))
    IN  IF how # "ok" THEN Raised(how)
        ELSE IF Resolve(p.cls, "run_stage1") = "SwinIRPipeline"
        THEN SwinIRPipeline_run_stage1(args[1])
        ELSE SCUNetPipeline_run_stage1(args[1])

(***************************************************************************)
(* Pipeline.run (lines 129-175) and direct calls of the stage-1 runners.   *)
(***************************************************************************)
MaxUpscaleNum == 3
MaxEdgeSmall == 2

\* upscale = n / d.
Upscales == (1..MaxUpscaleNum) \X {1, 2, 3}

\* Input heights and widths: tiny, and around the 512 threshold.
RunDims == (1..MaxEdgeSmall) \cup {511, 512, 640}

\* Channel counts of the input batch: grey and RGB.
RunChannels == {1, 3}

\* The pipelines as constructed (lines 50-56, 180-183).
Pipelines ==
    {[cls |-> "BSRNetPipeline", upscale |-> u, final_size |-> None] : u \in Upscales}
    \cup {[cls |-> c, upscale |-> None, final_size |-> None] :
              c \in {"SwinIRPipeline", "SCUNetPipeline"}}

RunIdle == [pc |-> "idle"]

\* Lines 148-149: the batch (n, h, w, c) becomes lq, (n, c, h, w).
RunCall ==
    /\ rn = RunIdle
    /\ \E h \in RunDims, w \in RunDims, c \in RunChannels, stage1_tile \in BOOLEAN :
          rn' = [pc |-> "set_final_size", fn |-> "run",
                 input |-> <<1, h, w, c>>,
                 lq |-> <<1, c, h, w>>,
                 stage1_tile |-> stage1_tile, trace |-> <<>>,
                 clean |-> Raised("pending"), sample |-> None, output |-> None]
    /\ UNCHANGED <<geo, tp, control_scales, s2, pipe>>

\* Line 153: self.set_final_size(lq).
RunSetFinalSize ==
    /\ rn.pc = "set_final_size"
    /\ pipe' = [pipe EXCEPT !.final_size = set_final_size(pipe, rn.lq)]
    /\ rn' = [rn EXCEPT !.pc = "stage1", !.trace = Append(rn.trace, "set_final_size")]
    /\ UNCHANGED <<geo, tp, control_scales, s2>>

\* Lines 154-175, one statement at a time: run_stage1 with the four
\* arguments run passes, run_stage2 (it returns a tensor of the clean
\* estimate's height and width), the wavelet fusion, the final resize.
RunAdvance ==
    /\ rn.pc \in {"stage1", "stage2", "fuse", "resize"}
    /\ rn' =
         CASE rn.pc = "stage1" ->
                LET clean == call_run_stage1(pipe,
                                 <<rn.lq, rn.stage1_tile, "stage1_tile_size",
                                   "stage1_tile_stride">>)
                IN  [rn EXCEPT !.clean = clean,
                               !.pc = IF clean.error = "" THEN "stage2" ELSE "raised",
                               !.trace = Append(rn.trace, "run_stage1")]
           [] rn.pc = "stage2" ->
                [rn EXCEPT !.sample = rn.clean.shape, !.pc = "fuse",
                           !.trace = Append(rn.trace, "run_stage2")]
           [] rn.pc = "fuse" ->
                [rn EXCEPT !.pc = "resize",
                           !.trace = Append(rn.trace, "wavelet_reconstruction")]
           [] rn.pc = "resize" ->
                [rn EXCEPT !.sample = pipe.final_size, !.output = pipe.final_size,
                           !.pc = "returned",
                           !.trace = Append(rn.trace, "resize")]
    /\ UNCHANGED <<geo, tp, control_scales, s2, pipe>>

\* After run has ended, the caller calls pipe.run_stage1(lq) itself, with
\* the one argument the runners' signatures take.
CallRunStage1 ==
    /\ rn.pc = "raised" /\ rn.fn = "run"
    /\ rn' = [rn EXCEPT !.fn = "run_stage1", !.pc = "stage1_done",
                        !.clean = call_run_stage1(pipe, <<rn.lq>>)]
    /\ UNCHANGED <<geo, tp, control_scales, s2, pipe>>

\* The function of lines 251-264 applied to the pipeline and the batch of
\* the run that ended.  No name is bound to it when the module is loaded
\* (its def follows tile_process's return): this is the function as written.
ApplyUpscalingRunner ==
    /\ rn.pc = "raised" /\ rn.fn = "run"
    /\ pipe.cls = "BSRNetPipeline"
    /\ rn' = [rn EXCEPT !.fn = "upscaling_run_stage1", !.pc = "stage1_done",
                        !.clean = run_stage1(pipe, rn.lq, rn.stage1_tile)]
    /\ UNCHANGED <<geo, tp, control_scales, s2, pipe>>

(***************************************************************************)
(* Specifications.                                                         *)
(***************************************************************************)
Init ==
    /\ geo = GeoIdle
    /\ tp = TileIdle
    /\ control_scales = Uniform(10)
    /\ s2 = Stage2Idle
    /\ pipe \in {q \in Pipelines : q.cls = "SwinIRPipeline"}
    /\ rn = RunIdle

NextGeo == CallPad \/ CallResize

SpecGeo == Init /\ [][NextGeo]_vars

NextTile == TileCall \/ TileStep \/ TileNormalize

SpecTile == Init /\ [][NextTile]_vars

\* Stage 2 starts from the scales the conditioning model is built with, or
\* from scales a caller has set layer by layer.
InitStage2 ==
    /\ geo = GeoIdle
    /\ tp = TileIdle
    /\ control_scales \in {Uniform(10), [i \in 1..NumControlScales |-> i]}
    /\ s2 = Stage2Idle
    /\ pipe \in {q \in Pipelines : q.cls = "SwinIRPipeline"}
    /\ rn = RunIdle

NextStage2 ==
    \/ Stage2Call
    \/ Stage2Override
    \/ Stage2Start
    \/ Stage2Sample
    \/ Stage2Return
    \/ Stage2Raise

SpecStage2 == InitStage2 /\ [][NextStage2]_vars

InitRun ==
    /\ geo = GeoIdle
    /\ tp = TileIdle
    /\ control_scales = Uniform(10)
    /\ s2 = Stage2Idle
    /\ pipe \in Pipelines
    /\ rn = RunIdle

NextRun ==
    \/ RunCall
    \/ RunSetFinalSize
    \/ RunAdvance
    \/ CallRunStage1
    \/ ApplyUpscalingRunner

SpecRun == InitRun /\ [][NextRun]_vars

(***************************************************************************)
(* The claims.                                                             *)
(***************************************************************************)

\* C1: when a run_stage2 call has ended, by return or by an exception, the
\* conditioning model's control_scales equal the ones held when the call
\* began.
C1_ScalesRestoredAfterCall ==
    (s2.pc = "idle" /\ s2.last # "none") => control_scales = s2.scales_at_call

\* C2: with 1 <= tile_stride <= tile_size, once every tile is accumulated the
\* weight accumulator is greater than 0 at every output pixel.
C2_WeightPositiveEverywhere ==
    (tp.pc \in {"normalize", "returned"} /\ tp.tile_stride <= tp.tile_size)
        => \A p \in DOMAIN tp.weight_map : tp.weight_map[p] > 0

\* C3: a tile_process call with tile_stride > tile_size never gets past its
\* first tile: it accumulates nothing, normalizes nothing and returns
\* nothing; the first tile ends it with an error.
C3_StrideAboveTileRaises ==
    (tp.pc # "idle" /\ tp.tile_stride > tp.tile_size)
        => /\ tp.pc \in {"loop", "raised"}
           /\ tp.pc = "loop" => tp.tiles = 0
           /\ tp.pc = "raised" => (tp.tiles = 1 /\ tp.raised # 0)
           /\ \A p \in DOMAIN tp.weight_map : tp.weight_map[p] = 0

C3_Witness ==
    /\ tp.pc = "raised"
    /\ tp.tile_stride > tp.tile_size
    /\ tp.raised = 237

\* C4: pad_to_multiples_of returns the least multiples of m that hold the
\* input's height and width, the input in the top-left corner and zeros
\* below and to the right of it; an aligned input comes back unchanged.
C4_PadToLeastMultiple ==
    geo.fn = "pad_to_multiples_of" =>
        LET in == geo.img
            m  == geo.multiple
            out == geo.out
        IN  /\ out.h % m = 0 /\ out.h >= in.h /\ out.h - in.h < m
            /\ out.w % m = 0 /\ out.w >= in.w /\ out.w - in.w < m
            /\ DOMAIN out.px = (1..out.h) \X (1..out.w)
            /\ \A p \in DOMAIN out.px :
                  out.px[p] = IF p[1] <= in.h /\ p[2] <= in.w THEN in.px[p] ELSE 0
            /\ (in.h % m = 0 /\ in.w % m = 0) => out = in

C4_Witness ==
    /\ geo.fn = "pad_to_multiples_of"
    /\ geo.img.h % geo.multiple # 0
    /\ geo.img.w % geo.multiple = 0
    /\ geo.multiple > 1
    /\ geo.out.h > geo.img.h
    /\ geo.out.w = geo.img.w

\* C5, as stated: resize_short_edge_to makes the shorter edge exactly size
\* (a square input becomes size x size) and the longer edge the truncated
\* value of long * size / short.
C5_ResizeExact ==
    geo.fn = "resize_short_edge_to" =>
        LET h == geo.h
            w == geo.w
            new_h == geo.out[1]
            new_w == geo.out[2]
        IN  /\ Min(new_h, new_w) = geo.size
            /\ h <= w => new_h = geo.size
            /\ w <= h => new_w = geo.size
            /\ h < w => new_w = (w * geo.size) \div h
            /\ w < h => new_h = (h * geo.size) \div w

\* long * size / short truncated, or one less where the quotient is whole.
NearTruncated(edge, long, size, short) ==
    LET exact == (long * size) \div short
    IN  /\ edge \in {exact, exact - 1}
        /\ (long * size) % short # 0 => edge = exact

\* C5, amended: the shorter edge becomes exactly size (a square input becomes
\* size x size); the longer edge is the truncated value of
\* long * size / short, or one less than it when long * size / short is a
\* whole number.
C5_ResizeWithinOne ==
    geo.fn = "resize_short_edge_to" =>
        LET h == geo.h
            w == geo.w
            new_h == geo.out[1]
            new_w == geo.out[2]
        IN  /\ Min(new_h, new_w) = geo.size
            /\ h <= w => new_h = geo.size
            /\ w <= h => new_w = geo.size
            /\ h < w => NearTruncated(new_w, w, geo.size, h)
            /\ w < h => NearTruncated(new_h, h, geo.size, w)

C5_Witness ==
    /\ geo.fn = "resize_short_edge_to"
    /\ geo.h = 49 /\ geo.w = 98 /\ geo.size = 512
    /\ geo.out = <<512, 1023>>

\* Round half to even of n / d, as Python's round.
Round(n, d) ==
    LET q == n \div d
        r == n % d
    IN  IF 2 * r < d THEN q
        ELSE IF 2 * r > d THEN q + 1
        ELSE IF q % 2 = 0 THEN q ELSE q + 1

\* The run under way has executed set_final_size.
FinalSizeSet == rn.pc # "idle" /\ rn.pc # "set_final_size"

\* C6, as stated: for the upscaling variant, final_size is
\* (round(H * u), round(W * u)).
C6_FinalSizeRounded ==
    (FinalSizeSet /\ pipe.cls = "BSRNetPipeline") =>
        pipe.final_size = <<Round(rn.input[2] * pipe.upscale[1], pipe.upscale[2]),
                            Round(rn.input[3] * pipe.upscale[1], pipe.upscale[2])>>

\* C6, amended: for the upscaling variant and an upscale factor whose
\* products are exact (a denominator that is a power of two), final_size is
\* (floor(H * u), floor(W * u)): the products are truncated, not rounded.
C6_FinalSizeTruncated ==
    (FinalSizeSet /\ pipe.cls = "BSRNetPipeline" /\ pipe.upscale[2] \in {1, 2}) =>
        pipe.final_size = <<(rn.input[2] * pipe.upscale[1]) \div pipe.upscale[2],
                            (rn.input[3] * pipe.upscale[1]) \div pipe.upscale[2]>>

C6_Witness ==
    /\ FinalSizeSet
    /\ pipe.cls = "BSRNetPipeline"
    /\ pipe.upscale = <<3, 2>>
    /\ rn.input[2] = 511 /\ rn.input[3] = 640
    /\ pipe.final_size = <<766, 960>>

\* C7: for the fixed-resolution restorer and the denoiser, the final size
\* run fixes is the input's (height, width).
C7_FinalSizeIsInputSize ==
    (FinalSizeSet /\ pipe.cls \in {"SwinIRPipeline", "SCUNetPipeline"}) =>
        pipe.final_size = <<rn.input[2], rn.input[3]>>

\* C8: a run call goes through set-final-size, the variant's run_stage1,
\* run_stage2, the wavelet fusion and the final resize, in this order, never
\* ends in an error, and returns an output of final_size.
RunOrder ==
    <<"set_final_size", "run_stage1", "run_stage2", "wavelet_reconstruction", "resize">>

C8_RunCompletesInOrder ==
    (rn.pc # "idle" /\ rn.fn = "run") =>
        /\ rn.pc # "raised"
        /\ Len(rn.trace) <= Len(RunOrder)
        /\ rn.trace = SubSeq(RunOrder, 1, Len(rn.trace))
        /\ rn.pc = "returned" =>
              (rn.trace = RunOrder /\ rn.output = pipe.final_size)

\* C9: with 1 <= tile_stride <= tile_size, the blend mask built for a tile
\* has the height and width of the tile's scaled output and of the output
\* region the tile is accumulated into.
C9_MaskMatchesTile ==
    (tp.pc # "idle" /\ tp.tiles > 0 /\ tp.tile_stride <= tp.tile_size) =>
        /\ tp.seen.mask_ok
        /\ tp.seen.mask[3] = tp.seen.scaled[3]
        /\ tp.seen.mask[4] = tp.seen.scaled[4]
        /\ tp.seen.mask[3] = tp.seen.region[3]
        /\ tp.seen.mask[4] = tp.seen.region[4]

\* C10: a clean estimate returned by a stage-1 runner has a shorter edge of
\* at least 512.
C10_CleanShortEdge ==
    (rn.pc # "idle" /\ rn.clean.error = "") =>
        Min(rn.clean.shape[1], rn.clean.shape[2]) >= MinEdge

C10_Witness ==
    /\ rn.pc = "stage1_done"
    /\ rn.fn = "run_stage1"
    /\ pipe.cls = "SwinIRPipeline"
    /\ rn.clean.error = ""
    /\ rn.lq[3] = 1 /\ rn.lq[4] = 640
    /\ rn.clean.shape[1] = MinEdge

====
